---------------------------- MODULE Spec2Model ----------------------------
(***************************************************************************)
(* Model of the MBR/GPT partition lister (main.c, mbr.h, gpt.h).           *)
(*                                                                         *)
(* A sector is a sequence of 512 bytes; byte offset k of the C buffer is   *)
(* element k+1 of the sequence.  Structures are the packed C structs of     *)
(* mbr.h and gpt.h: a field's offset is the sum of the sizes of the fields  *)
(* declared before it, and multi-byte fields are read little-endian (the    *)
(* program overlays the structs on the buffer on a little-endian host).     *)
(*                                                                         *)
(* The bodies of is_mbr, is_valid_gpt_header, is_null_descriptor,           *)
(* print_mbr_partition_table, print_gpt_partition_table,                    *)
(* gpt_decode_partition_name, guid_to_str and get_gpt_partition_type are    *)
(* only declared in the headers; they are modelled from their documented    *)
(* contract.                                                                *)
(***************************************************************************)
EXTENDS Integers, Sequences, FiniteSets, TLC

VARIABLES argv, dev, pc, boot_record, buffer, hdr,
          partition_entries_lba, num_entries, entry_size, ei, desc,
          stack, trace, printed

vars == <<argv, dev, pc, boot_record, buffer, hdr,
          partition_entries_lba, num_entries, entry_size, ei, desc,
          stack, trace, printed>>

-----------------------------------------------------------------------------
(* Bounds of the model *)

\* largest number of devices on the command line (argc - 1)
MaxDevices == 2

-----------------------------------------------------------------------------
(* Program constants *)

SECTOR_SIZE == 512
MBR_SIGNATURE == 43605
MBR_TYPE_GPT == 238
MBR_TYPE_UNUSED == 0

\* the largest num_partition_entries the header validation accepts
MaxPartitionEntries == 4096
\* the smallest header_size the header validation accepts
MinHeaderSize == 92

-----------------------------------------------------------------------------
(* Bytes and packed structures *)

\* n bytes of value b
Fill(n, b) == [k \in 1..n |-> b] \o <<>>

Zeros(n) == Fill(n, 0)

\* the n bytes of buf that start at byte offset off
Bytes(buf, off, n) == SubSeq(buf, off + 1, off + n)

\* buf with the bytes bs written at byte offset off (memcpy into a buffer)
Splice(buf, off, bs) ==
  SubSeq(buf, 1, off) \o bs \o SubSeq(buf, off + Len(bs) + 1, Len(buf))

RECURSIVE LE(_)
\* the value of a little-endian byte string
LE(bs) == IF bs = <<>> THEN 0 ELSE bs[1] + 256 * LE(Tail(bs))

RECURSIVE ToLE(_, _)
\* the n-byte little-endian encoding of v
ToLE(v, n) == IF n = 0 THEN <<>> ELSE <<v % 256>> \o ToLE(v \div 256, n - 1)

RECURSIVE OffsetIn(_, _)
\* offsetof(struct, name) in a packed struct: the sizes before it, summed
OffsetIn(fields, name) ==
  IF fields[1][1] = name THEN 0
  ELSE fields[1][2] + OffsetIn(Tail(fields), name)

RECURSIVE SizeOfStruct(_)
SizeOfStruct(fields) ==
  IF fields = <<>> THEN 0 ELSE fields[1][2] + SizeOfStruct(Tail(fields))

FieldSize(fields, name) ==
  LET k == CHOOSE j \in 1..Len(fields) : fields[j][1] = name IN fields[k][2]

\* the raw bytes of field name of a struct overlaid on buf at offset at
FieldBytes(fields, buf, at, name) ==
  Bytes(buf, at + OffsetIn(fields, name), FieldSize(fields, name))

\* the integer field name of a struct overlaid on buf at offset at
Field(fields, buf, at, name) == LE(FieldBytes(fields, buf, at, name))


-----------------------------------------------------------------------------
(* Structure layouts *)

\* mbr.h: mbr_partition_descriptor, 16 bytes
mbr_partition_descriptor ==
  << <<"boot_flag", 1>>, <<"chs_start", 3>>, <<"partition_type", 1>>,
     <<"chs_end", 3>>, <<"start_lba", 4>>, <<"size", 4>> >>

\* the boot code taken as 440 bytes, without the disk signature area
mbr_bootcode440 ==
  << <<"bootsector_code", 440>>,
     <<"partition_table", 4 * SizeOfStruct(mbr_partition_descriptor)>>,
     <<"signature", 2>> >>

\* mbr.h: mbr, 512 bytes
mbr ==
  << <<"bootsector_code", 446>>,
     <<"partition_table", 4 * SizeOfStruct(mbr_partition_descriptor)>>,
     <<"signature", 2>> >>

\* gpt.h: guid, 16 bytes
guid ==
  << <<"time_lo", 4>>, <<"time_mid", 2>>, <<"time_hi_and_version", 2>>,
     <<"clock_seq_hi_and_reserved", 1>>, <<"clock_seq_lo", 1>>, <<"node", 6>> >>

\* gpt.h: gpt_header as declared
gpt_header ==
  << <<"signature", 8>>, <<"revision", 2>>, <<"header_size", 2>>,
     <<"header_crc32", 2>>, <<"reserved", 2>>, <<"current_lba", 8>>,
     <<"backup_lba", 8>>, <<"first_usable_lba", 8>>, <<"last_usable_lba", 8>>,
     <<"partition_entry_type_guid", SizeOfStruct(guid)>>,
     <<"partition_entries_lba", 8>>, <<"num_partition_entries", 4>>,
     <<"partition_entry_size", 4>>, <<"partition_entry_array_crc32", 2>>,
     <<"reserved2", 2>> >>

\* gpt.h: gpt_partition_descriptor, 128 bytes
gpt_partition_descriptor ==
  << <<"partition_type_guid", SizeOfStruct(guid)>>,
     <<"unique_partition_guid", SizeOfStruct(guid)>>,
     <<"starting_lba", 8>>, <<"ending_lba", 8>>, <<"attributes", 8>>,
     <<"partition_name", 72>> >>

\* boot_record->signature
mbr_signature(b) == Field(mbr, b, 0, "signature")

\* boot_record->partition_table[k].partition_type, k in 0..3
mbr_partition_type(b, k) ==
  Field(mbr_partition_descriptor, b,
        OffsetIn(mbr, "partition_table")
          + k * SizeOfStruct(mbr_partition_descriptor),
        "partition_type")

\* hdr->signature
hdr_signature(h) == FieldBytes(gpt_header, h, 0, "signature")

\* hdr->header_size
hdr_header_size(h) == Field(gpt_header, h, 0, "header_size")

\* hdr->partition_entries_lba
hdr_partition_entries_lba(h) == Field(gpt_header, h, 0, "partition_entries_lba")

\* hdr->num_partition_entries
hdr_num_partition_entries(h) == Field(gpt_header, h, 0, "num_partition_entries")

\* hdr->partition_entry_size
hdr_partition_entry_size(h) == Field(gpt_header, h, 0, "partition_entry_size")

-----------------------------------------------------------------------------
(* Disk images: the devices named on the command line.                     *)
(* An image is described by a record of parameters; DiskImage gives the    *)
(* sectors it holds.  Reads at lba >= nsec fail (short image,              *)
(* nsec = 0: the device cannot be opened or holds no full sector).         *)
(* The images are laid out at literal byte offsets, independently of the   *)
(* struct definitions above.                                               *)

EFI_PART == <<69, 70, 73, 32, 80, 65, 82, 84>>

\* C12A7328-F81F-11D2-BA4B-00A0C93EC93B as stored on disk
EspGuidBytes ==
  <<40, 115, 42, 193, 31, 248, 210, 17, 186, 75, 0, 160, 201, 62, 201, 59>>

\* 0FC63DAF-8483-4772-8E79-3D69D8477DE4 as stored on disk
LinuxGuidBytes ==
  <<175, 61, 198, 15, 131, 132, 114, 71, 142, 121, 61, 105, 216, 71, 125, 228>>

RECURSIVE Utf16(_)
\* an ASCII string (as a sequence of codes) in two-byte little-endian units
Utf16(cs) == IF cs = <<>> THEN <<>> ELSE <<cs[1], 0>> \o Utf16(Tail(cs))

\* "EFI System"
NameEfiSystem == <<69, 70, 73, 32, 83, 121, 115, 116, 101, 109>>
\* "root"
NameRoot == <<114, 111, 111, 116>>

\* one 128-byte partition entry as it lies on disk
MkEntry(tg, ug, s, e, nm) ==
  tg \o ug \o ToLE(s, 8) \o ToLE(e, 8) \o Zeros(8)
     \o Utf16(nm) \o Zeros(72 - 2 * Len(nm))

EntryImage(kind) ==
  CASE kind = "esp"   -> MkEntry(EspGuidBytes, Fill(16, 17), 34, 2081, NameEfiSystem)
    [] kind = "linux" -> MkEntry(LinuxGuidBytes, Fill(16, 34), 2082, 4095, NameRoot)
    [] kind = "void"  -> MkEntry(Zeros(16), Fill(16, 51), 7, 9, NameRoot)
    [] OTHER          -> Zeros(128)

\* one 16-byte descriptor of the MBR partition table
MbrEntryImage(flag, type) == <<flag, 0, 0, 0, type>> \o Zeros(11)

BootSectorImage(d) ==
  Zeros(446)
    \o MbrEntryImage(d.flags[1], d.types[1])
    \o MbrEntryImage(d.flags[2], d.types[2])
    \o MbrEntryImage(d.flags[3], d.types[3])
    \o MbrEntryImage(d.flags[4], d.types[4])
    \o d.sig

\* the header as the UEFI layout stores it (92 bytes, 32-bit revision,
\* header_size, header_crc32, reserved)
HeaderUefi(d) ==
  <<0, 0, 1, 0>> \o ToLE(d.hsize, 4) \o ToLE(d.crc, 4) \o Zeros(4)
    \o ToLE(1, 8) \o ToLE(d.nsec, 8) \o ToLE(34, 8) \o ToLE(d.nsec, 8)
    \o d.dguid \o ToLE(d.pel, 8) \o ToLE(d.n, 4) \o ToLE(d.es, 4)
    \o ToLE(d.crc, 4)

\* the header with 16-bit revision, header_size, header_crc32 and reserved
HeaderShort(d) ==
  <<1, 0>> \o ToLE(d.hsize, 2) \o ToLE(d.crc, 2) \o Zeros(2)
    \o ToLE(1, 8) \o ToLE(d.nsec, 8) \o ToLE(34, 8) \o ToLE(d.nsec, 8)
    \o d.dguid \o ToLE(d.pel, 8) \o ToLE(d.n, 4) \o ToLE(d.es, 4)
    \o ToLE(d.crc, 2) \o Zeros(2)

PadTo(bs, n, b) == bs \o Fill(n - Len(bs), b)

HeaderSectorImage(d) ==
  PadTo(d.hsig \o (IF d.layout = "uefi" THEN HeaderUefi(d) ELSE HeaderShort(d)),
        512, d.pad)

RECURSIVE EntryArrayImage(_, _)
\* the partition entries, each in its es bytes, one after the other
EntryArrayImage(kinds, es) ==
  IF kinds = <<>> THEN <<>>
  ELSE PadTo(EntryImage(kinds[1]), es, 0) \o EntryArrayImage(Tail(kinds), es)

RECURSIVE Sectors(_, _)
\* the first k sectors of a byte string, the last one padded with zeros
Sectors(bs, k) ==
  IF k = 0 THEN <<>>
  ELSE IF Len(bs) >= 512
    THEN <<SubSeq(bs, 1, 512)>> \o Sectors(SubSeq(bs, 513, Len(bs)), k - 1)
    ELSE <<PadTo(bs, 512, 0)>> \o Sectors(<<>>, k - 1)

\* the sectors of the image, LBA 0 first
DiskImage(d) ==
  LET all == <<BootSectorImage(d), HeaderSectorImage(d)>>
               \o Sectors(Zeros((d.pel - 2) * 512)
                            \o (IF d.es >= 128
                                THEN EntryArrayImage(d.ents, d.es) ELSE <<>>),
                          d.nsec)
  IN SubSeq(all, 1, d.nsec)

-----------------------------------------------------------------------------
(* Functions declared in mbr.h and gpt.h *)

\* mbr.h: 0 not a valid MBR, 1 traditional MBR, 2 protective MBR
is_mbr(b) ==
  IF mbr_signature(b) # MBR_SIGNATURE THEN 0
  ELSE IF \E k \in 0..3 : mbr_partition_type(b, k) = MBR_TYPE_GPT THEN 2
  ELSE 1

\* gpt.h: the validation sequence of the header, first failure wins.
\* The CRC-32 comparison is left out: it can only reject more headers.
is_valid_gpt_header(h) ==
  /\ hdr_signature(h) = EFI_PART
  /\ hdr_header_size(h) >= MinHeaderSize
  /\ hdr_header_size(h) <= SECTOR_SIZE
  /\ hdr_partition_entry_size(h) > 0
  /\ hdr_partition_entry_size(h) <= SECTOR_SIZE
  /\ hdr_num_partition_entries(h) <= MaxPartitionEntries

\* gpt.h: a descriptor is empty iff its partition type GUID is all zero
is_null_descriptor(ds) ==
  FieldBytes(gpt_partition_descriptor, ds, 0, "partition_type_guid")
    = Zeros(SizeOfStruct(guid))

Reverse(bs) == [k \in 1..Len(bs) |-> bs[Len(bs) + 1 - k]]

\* gpt.h: the bytes of a GUID in the order its text form shows them: the
\* three integer fields most significant byte first, the rest as stored
guid_to_str(g) ==
  Reverse(FieldBytes(guid, g, 0, "time_lo"))
    \o Reverse(FieldBytes(guid, g, 0, "time_mid"))
    \o Reverse(FieldBytes(guid, g, 0, "time_hi_and_version"))
    \o FieldBytes(guid, g, 0, "clock_seq_hi_and_reserved")
    \o FieldBytes(guid, g, 0, "clock_seq_lo")
    \o FieldBytes(guid, g, 0, "node")

\* gpt.h: the description of a partition type given its GUID text
get_gpt_partition_type(str) ==
  CASE str = <<193, 42, 115, 40, 248, 31, 17, 210,
               186, 75, 0, 160, 201, 62, 201, 59>> -> "EFI System Partition"
    [] str = <<15, 198, 61, 175, 132, 131, 71, 114,
               142, 121, 61, 105, 216, 71, 125, 228>> -> "Linux filesystem data"
    [] OTHER -> "Unknown"

RECURSIVE DecodeUnits(_, _)
DecodeUnits(raw, k) ==
  IF k > 36 THEN <<>>
  ELSE LET u == raw[2 * k - 1] + 256 * raw[2 * k]
       IN IF u = 0 THEN <<>> ELSE <<u>> \o DecodeUnits(raw, k + 1)

\* gpt.h: the two-byte code units of a 72-byte name, up to the first zero
\* unit or 36 units
gpt_decode_partition_name(raw) == DecodeUnits(raw, 1)

\* the record shown for one slot of the array given to
\* print_gpt_partition_table
PartitionRecord(slot) ==
  [start |-> FieldBytes(gpt_partition_descriptor, slot, 0, "starting_lba"),
   end   |-> FieldBytes(gpt_partition_descriptor, slot, 0, "ending_lba"),
   type_description |->
     get_gpt_partition_type(guid_to_str(
       FieldBytes(gpt_partition_descriptor, slot, 0, "partition_type_guid"))),
   name  |-> gpt_decode_partition_name(
       FieldBytes(gpt_partition_descriptor, slot, 0, "partition_name"))]

RECURSIVE GptRecords(_)
\* gpt.h: print_gpt_partition_table lists the non-empty slots in order
GptRecords(parts) ==
  IF parts = <<>> THEN <<>>
  ELSE (IF is_null_descriptor(parts[1]) THEN <<>>
        ELSE <<PartitionRecord(parts[1])>>) \o GptRecords(Tail(parts))

-----------------------------------------------------------------------------
(* The devices a run may be given *)

\* a GPT disk whose header has the layout of the gpt_header struct
GptDisk ==
  [nsec |-> 8, sig |-> <<85, 170>>, types |-> <<238, 0, 0, 0>>,
   flags |-> <<0, 0, 0, 0>>, hsig |-> EFI_PART, layout |-> "short",
   hsize |-> 92, crc |-> 0,
   dguid |-> <<1, 2, 3, 4, 5, 6, 7, 8, 9, 0, 0, 0, 0, 0, 0, 0>>,
   pel |-> 2, n |-> 2, es |-> 128, ents |-> <<"esp", "linux">>, pad |-> 0]

\* a device that holds a boot sector only
BootDisk(sig, types, flags) ==
  [GptDisk EXCEPT !.nsec = 1, !.sig = sig, !.types = types, !.flags = flags]

BootDisks ==
  { [GptDisk EXCEPT !.nsec = 0],
    BootDisk(<<85, 170>>, <<7, 0, 0, 0>>, <<128, 0, 0, 0>>),
    BootDisk(<<85, 170>>, <<0, 0, 0, 238>>, <<0, 0, 0, 0>>),
    BootDisk(<<85, 170>>, <<7, 238, 0, 0>>, <<128, 0, 0, 0>>),
    BootDisk(<<85, 170>>, <<131, 0, 0, 0>>, <<238, 0, 0, 0>>),
    BootDisk(<<170, 85>>, <<238, 0, 0, 0>>, <<0, 0, 0, 0>>),
    BootDisk(<<85, 0>>, <<0, 0, 0, 238>>, <<128, 0, 0, 0>>) }

\* the disk of the end-to-end GPT scenario: a UEFI header with 128 entries of
\* 128 bytes at LBA 2, entry 0 an EFI System Partition at 34..2081
ScenarioB ==
  [GptDisk EXCEPT !.nsec = 40, !.layout = "uefi", !.n = 128, !.ents = <<"esp">>]

HeaderDisks ==
  { ScenarioB,
    GptDisk,
    [GptDisk EXCEPT !.n = 3, !.ents = <<"void", "linux", "esp">>, !.pad = 255],
    [GptDisk EXCEPT !.n = 3, !.es = 256, !.ents = <<"esp", "linux", "void">>],
    [GptDisk EXCEPT !.n = 0, !.ents = <<>>],
    [GptDisk EXCEPT !.n = 5, !.nsec = 3,
                    !.ents = <<"esp", "void", "linux", "void", "linux">>],
    [GptDisk EXCEPT !.nsec = 2],
    [GptDisk EXCEPT !.hsize = 91, !.es = 0],
    [GptDisk EXCEPT !.n = 4097] }

BadSignatureDisks ==
  { [GptDisk EXCEPT !.hsig = <<101, 70, 73, 32, 80, 65, 82, 84>>],
    [GptDisk EXCEPT !.hsig = <<69, 70, 73, 32, 80, 65, 82, 85>>, !.pad = 255],
    [GptDisk EXCEPT !.hsig = <<69, 70, 73, 32, 0, 0, 0, 0>>],
    [ScenarioB EXCEPT !.hsig = <<69, 70, 73, 32, 80, 65, 82, 0>>],
    [GptDisk EXCEPT !.hsig = Zeros(8), !.hsize = 91, !.n = 0, !.ents = <<>>] }

\* the devices of the runs of several devices
CoreDisks == BootDisks \cup HeaderDisks \cup BadSignatureDisks

\* boot sectors: every placement of the types 0x00, 0x07 and 0xEE in the
\* four descriptors, under four signatures, with and without 0xEE and 0x80
\* in the boot_flag bytes (4 * 81 * 2 of them); i counts them from 0
BootFamilySize == 648

BootFamily(i) ==
  LET sigs == << <<85, 170>>, <<170, 85>>, <<85, 0>>, <<0, 170>> >>
      ty == <<0, 7, 238>>
      fl == << <<0, 0, 0, 0>>, <<238, 128, 0, 0>> >>
  IN BootDisk(sigs[(i % 4) + 1],
              << ty[((i \div 4) % 3) + 1], ty[((i \div 12) % 3) + 1],
                 ty[((i \div 36) % 3) + 1], ty[((i \div 108) % 3) + 1] >>,
              fl[((i \div 324) % 2) + 1])

\* header sectors behind a protective MBR: signatures that are right or
\* wrong in one place, over remainders in either layout that are or are
\* not acceptable otherwise (6 * 2 * 2 * 3 * 2 * 2 of them); i counts them
\* from 0
HeaderFamilySize == 288

HeaderFamily(i) ==
  LET hsigs == << EFI_PART,
                  <<101, 70, 73, 32, 80, 65, 82, 84>>,
                  <<69, 70, 73, 32, 80, 65, 82, 85>>,
                  <<69, 70, 73, 32, 0, 0, 0, 0>>,
                  <<0, 0, 0, 0, 80, 65, 82, 84>>,
                  <<255, 255, 255, 255, 255, 255, 255, 255>> >>
      layouts == <<"uefi", "short">>
      hsizes == <<91, 92>>
      ns == <<0, 2, 4097>>
      ess == <<0, 128>>
      pads == <<0, 255>>
  IN [GptDisk EXCEPT !.hsig = hsigs[(i % 6) + 1],
                     !.layout = layouts[((i \div 6) % 2) + 1],
                     !.hsize = hsizes[((i \div 12) % 2) + 1],
                     !.n = ns[((i \div 24) % 3) + 1],
                     !.es = ess[((i \div 72) % 2) + 1],
                     !.pad = pads[((i \div 144) % 2) + 1]]

RECURSIVE SeqOf(_)
\* the elements of a set, in some order
SeqOf(S) ==
  IF S = {} THEN <<>>
  ELSE LET x == CHOOSE y \in S : TRUE IN <<x>> \o SeqOf(S \ {x})

\* the devices, numbered from 1, the core ones first; argv holds these
\* numbers
Disks ==
  SeqOf(CoreDisks)
    \o [i \in 1..BootFamilySize |-> BootFamily(i - 1)]
    \o [i \in 1..HeaderFamilySize |-> HeaderFamily(i - 1)]

\* Images[k]: the sectors of device k
Images == [k \in 1..Len(Disks) |-> DiskImage(Disks[k])] \o <<>>

\* the 512 bytes device k holds at an LBA below its size
ImageSector(k, lba) == Images[k][lba + 1]

\* the n bytes of device k that start at absolute byte offset a
ImageBytes(k, a, n) ==
  LET first == a \div 512
      last == (a + n - 1) \div 512
      both == IF last = first THEN ImageSector(k, first)
              ELSE ImageSector(k, first) \o ImageSector(k, last)
  IN SubSeq(both, (a % 512) + 1, (a % 512) + n)

\* what an uninitialised stack byte may hold
JunkBytes == {0, 255}

-----------------------------------------------------------------------------
(* main.c *)

\* main.c: read_lba_sector on device k; a short image makes fseek/fread fail
\* and leaves the caller's buffer as it was
read_lba_sector(k, lba, buf) ==
  IF lba < Disks[k].nsec THEN [ok |-> TRUE, buf |-> ImageSector(k, lba)]
  ELSE [ok |-> FALSE, buf |-> buf]

RECURSIVE Decimal(_)
\* the decimal digits of n, as character codes (%u)
Decimal(n) ==
  IF n < 10 THEN <<48 + n>> ELSE Decimal(n \div 10) \o <<48 + (n % 10)>>

\* snprintf(name, size, "Partici\303\263n %u", k): the bytes written,
\* with the terminating NUL, cut to size bytes
snprintf_name(size, k) ==
  LET full == <<80, 97, 114, 116, 105, 99, 105, 195, 179, 110, 32>>
                \o Decimal(k)
  IN (IF Len(full) < size THEN full ELSE SubSeq(full, 1, size - 1)) \o <<0>>

\* one event of the run: a sector read, a call or an output
E(ev, d, lba, ok, idx, res) ==
  [ev |-> ev, dev |-> d, lba |-> lba, ok |-> ok, idx |-> idx, res |-> res]

\* the slot of the stack that partitions[i] occupies when the array has n
\* elements: the array ends where the frame's free space ends
SlotOf(n, i) == n - i

\* partitions[0..n-1] as they lie on the stack
Partitions(st, n) == [k \in 1..n |-> st[SlotOf(n, k - 1)]]

-----------------------------------------------------------------------------
(* main *)

\* the state at the entry of main, given the command line
Entry(args) ==
  /\ argv \in args
  /\ dev = 1
  /\ pc = "start"
  /\ boot_record = <<>>
  /\ buffer = <<>>
  /\ hdr = <<>>
  /\ partition_entries_lba = 0
  /\ num_entries = 0
  /\ entry_size = 0
  /\ ei = 0
  /\ desc = <<>>
  /\ stack = <<>>
  /\ trace = <<>>
  /\ printed = <<>>

\* up to MaxDevices devices among the core ones
Init ==
  Entry(UNION { [1..k -> 1..Cardinality(CoreDisks)] : k \in 0..MaxDevices })

\* no device, or one device among all of them
InitOne == Entry({<<>>} \cup { <<k>> : k \in 1..Len(Disks) })

gptlocals == <<partition_entries_lba, num_entries, entry_size, ei, desc, stack>>

\* main.c:73-76: no device named: usage message, exit(EXIT_FAILURE)
Usage ==
  /\ pc = "start"
  /\ Len(argv) + 1 < 2
  /\ pc' = "exit_failure"
  /\ UNCHANGED <<argv, dev, boot_record, buffer, hdr, gptlocals,
                 trace, printed>>

\* main.c:82: the loop over the devices is entered
Begin ==
  /\ pc = "start"
  /\ Len(argv) + 1 >= 2
  /\ pc' = "loop"
  /\ UNCHANGED <<argv, dev, boot_record, buffer, hdr, gptlocals,
                 trace, printed>>

\* the read failure of LBA 0 taken as the end of the run (break)
ReadBootSector_Break ==
  /\ pc = "loop"
  /\ dev <= Len(argv)
  /\ LET r == read_lba_sector(argv[dev], 0, boot_record) IN
       /\ boot_record' = r.buf
       /\ trace' = Append(trace, E("read_boot", dev, 0, r.ok, 0, 0))
       /\ IF r.ok
          THEN /\ pc' = "is_mbr"
               /\ dev' = dev
          ELSE /\ pc' = "exit"
               /\ dev' = dev + 1
  /\ UNCHANGED <<argv, buffer, hdr, gptlocals, printed>>

\* main.c:82-97: next device, read its first sector (and dump it); on
\* failure, continue
ReadBootSector ==
  /\ pc = "loop"
  /\ dev <= Len(argv)
  /\ LET r == read_lba_sector(argv[dev], 0, boot_record) IN
       /\ boot_record' = r.buf
       /\ trace' = Append(trace, E("read_boot", dev, 0, r.ok, 0, 0))
       /\ IF r.ok
          THEN /\ pc' = "is_mbr"
               /\ dev' = dev
          ELSE /\ pc' = "loop"
               /\ dev' = dev + 1
  /\ UNCHANGED <<argv, buffer, hdr, gptlocals, printed>>

\* main.c:102-106: a boot sector without a valid signature: warn, continue
CheckSignature ==
  /\ pc = "is_mbr"
  /\ LET r == is_mbr(boot_record) IN
       /\ trace' = Append(trace, E("is_mbr", dev, 0, r # 0, 0, r))
       /\ IF r = 0
          THEN /\ pc' = "loop"
               /\ dev' = dev + 1
          ELSE /\ pc' = "scheme"
               /\ dev' = dev
  /\ UNCHANGED <<argv, boot_record, buffer, hdr, gptlocals, printed>>

\* the scheme test taken as "is a valid MBR" instead of "is protective"
Scheme_AnyValid ==
  /\ pc = "scheme"
  /\ IF is_mbr(boot_record) >= 1
     THEN /\ pc' = "read_hdr"
          /\ dev' = dev
          /\ trace' = trace
     ELSE /\ pc' = "loop"
          /\ dev' = dev + 1
          /\ trace' = Append(trace, E("print_mbr", dev, 0, TRUE, 0, 0))
  /\ UNCHANGED <<argv, boot_record, buffer, hdr, gptlocals, printed>>

\* main.c:110, 169-173: a traditional MBR is listed, a protective one goes on
\* to the GPT header
Scheme ==
  /\ pc = "scheme"
  /\ IF is_mbr(boot_record) = 2
     THEN /\ pc' = "read_hdr"
          /\ dev' = dev
          /\ trace' = trace
     ELSE /\ pc' = "loop"
          /\ dev' = dev + 1
          /\ trace' = Append(trace, E("print_mbr", dev, 0, TRUE, 0, 0))
  /\ UNCHANGED <<argv, boot_record, buffer, hdr, gptlocals, printed>>

\* main.c:113-122: read LBA 1 and copy sizeof(gpt_header) bytes of it
ReadGptHeader ==
  /\ pc = "read_hdr"
  /\ LET r == read_lba_sector(argv[dev], 1, buffer) IN
       /\ buffer' = r.buf
       /\ trace' = Append(trace, E("read_hdr", dev, 1, r.ok, 0, 0))
       /\ IF r.ok
          THEN /\ hdr' = Bytes(r.buf, 0, SizeOfStruct(gpt_header))
               /\ pc' = "validate"
               /\ dev' = dev
          ELSE /\ hdr' = hdr
               /\ pc' = "loop"
               /\ dev' = dev + 1
  /\ UNCHANGED <<argv, boot_record, gptlocals, printed>>

\* the warning about an invalid header without the continue that follows it
ValidateHeader_NoContinue ==
  /\ pc = "validate"
  /\ pc' = "enum"
  /\ dev' = dev
  /\ partition_entries_lba' = hdr_partition_entries_lba(hdr)
  /\ num_entries' = hdr_num_partition_entries(hdr)
  /\ entry_size' = hdr_partition_entry_size(hdr)
  /\ trace' = Append(trace, E("is_valid", dev, 0, is_valid_gpt_header(hdr),
                              0, num_entries'))
  /\ ei' = 0
  /\ desc' = <<>>
  /\ \E keep \in BOOLEAN, p \in JunkBytes :
       stack' =
         [t \in 1..(IF num_entries' > Len(stack) THEN num_entries'
                    ELSE Len(stack)) |->
            IF keep /\ t <= Len(stack) THEN stack[t]
            ELSE Fill(SizeOfStruct(gpt_partition_descriptor), p)]
  /\ UNCHANGED <<argv, boot_record, buffer, hdr, printed>>

\* main.c:125-139: an invalid header: warn, continue; a valid one: take the
\* geometry and declare partitions[num_entries], which is not initialised:
\* it holds what the stack held (kept) or what calls in between left there
ValidateHeader ==
  /\ pc = "validate"
  /\ IF ~ is_valid_gpt_header(hdr)
     THEN /\ pc' = "loop"
          /\ dev' = dev + 1
          /\ trace' = Append(trace, E("is_valid", dev, 0, FALSE, 0, 0))
          /\ UNCHANGED gptlocals
     ELSE /\ pc' = "enum"
          /\ dev' = dev
          /\ partition_entries_lba' = hdr_partition_entries_lba(hdr)
          /\ num_entries' = hdr_num_partition_entries(hdr)
          /\ entry_size' = hdr_partition_entry_size(hdr)
          /\ trace' = Append(trace, E("is_valid", dev, 0, TRUE, 0, num_entries'))
          /\ ei' = 0
          /\ desc' = <<>>
          /\ \E keep \in BOOLEAN, p \in JunkBytes :
               stack' =
                 [t \in 1..(IF num_entries' > Len(stack) THEN num_entries'
                            ELSE Len(stack)) |->
                    IF keep /\ t <= Len(stack) THEN stack[t]
                    ELSE Fill(SizeOfStruct(gpt_partition_descriptor), p)]
  /\ UNCHANGED <<argv, boot_record, buffer, hdr, printed>>

\* main.c:158-163: the fields of partitions[i] that are assigned
StoreDescriptor(slot, ds, i) ==
  LET f(name) == FieldBytes(gpt_partition_descriptor, ds, 0, name)
      at(name) == OffsetIn(gpt_partition_descriptor, name)
  IN Splice(Splice(Splice(Splice(slot,
         at("starting_lba"), f("starting_lba")),
         at("ending_lba"), f("ending_lba")),
         at("partition_type_guid"), f("partition_type_guid")),
         at("partition_name"),
         snprintf_name(FieldSize(gpt_partition_descriptor, "partition_name"),
                       i + 1))

\* main.c:142: the sector read for entry i.  i * entry_size is an unsigned
\* int product; with the validated geometry it stays below 2^32.
EntryLba(i) == partition_entries_lba + (i * entry_size) \div SECTOR_SIZE

\* main.c:152: the bytes of the sector copied into desc
CopyDescriptor(buf, i) == Bytes(buf, 0, SizeOfStruct(gpt_partition_descriptor))

\* the loop left at the first empty descriptor (break for continue)
EnumStep_BreakOnNull ==
  /\ pc = "enum"
  /\ ei < num_entries
  /\ LET lba == EntryLba(ei)
         r == read_lba_sector(argv[dev], lba, buffer)
         ds == CopyDescriptor(r.buf, ei)
     IN /\ buffer' = r.buf
        /\ IF ~ r.ok
           THEN /\ pc' = "print"
                /\ trace' = Append(trace, E("read_entry", dev, lba, FALSE, ei, 0))
                /\ UNCHANGED <<ei, desc, stack>>
           ELSE /\ desc' = ds
                /\ ei' = ei + 1
                /\ IF is_null_descriptor(ds)
                   THEN /\ pc' = "print"
                        /\ stack' = stack
                        /\ trace' = Append(trace,
                                      E("read_entry", dev, lba, TRUE, ei, 0))
                   ELSE /\ pc' = "enum"
                        /\ stack' =
                             [stack EXCEPT ![SlotOf(num_entries, ei)] =
                                StoreDescriptor(@, ds, ei)]
                        /\ trace' = Append(trace,
                                      E("read_entry", dev, lba, TRUE, ei, 1))
  /\ UNCHANGED <<argv, dev, boot_record, hdr, partition_entries_lba,
                 num_entries, entry_size, printed>>

\* main.c:141-164: one iteration of the loop over the entries
EnumStep ==
  /\ pc = "enum"
  /\ ei < num_entries
  /\ LET lba == EntryLba(ei)
         r == read_lba_sector(argv[dev], lba, buffer)
         ds == CopyDescriptor(r.buf, ei)
     IN /\ buffer' = r.buf
        /\ IF ~ r.ok
           THEN /\ pc' = "print"
                /\ trace' = Append(trace, E("read_entry", dev, lba, FALSE, ei, 0))
                /\ UNCHANGED <<ei, desc, stack>>
           ELSE /\ pc' = "enum"
                /\ desc' = ds
                /\ ei' = ei + 1
                /\ IF is_null_descriptor(ds)
                   THEN /\ stack' = stack
                        /\ trace' = Append(trace,
                                      E("read_entry", dev, lba, TRUE, ei, 0))
                   ELSE /\ stack' =
                             [stack EXCEPT ![SlotOf(num_entries, ei)] =
                                StoreDescriptor(@, ds, ei)]
                        /\ trace' = Append(trace,
                                      E("read_entry", dev, lba, TRUE, ei, 1))
  /\ UNCHANGED <<argv, dev, boot_record, hdr, partition_entries_lba,
                 num_entries, entry_size, printed>>

\* main.c:167: the table is printed, after the loop ended or was left
PrintGpt ==
  /\ \/ pc = "print"
     \/ pc = "enum" /\ ei >= num_entries
  /\ printed' = Append(printed,
                  [dev |-> dev, n |-> num_entries,
                   parts |-> Partitions(stack, num_entries)])
  /\ trace' = Append(trace, E("print_gpt", dev, 0, TRUE, ei, num_entries))
  /\ pc' = "loop"
  /\ dev' = dev + 1
  /\ UNCHANGED <<argv, boot_record, buffer, hdr, gptlocals>>

\* main.c:82, 175: no device left: return 0
Exit ==
  /\ pc = "loop"
  /\ dev > Len(argv)
  /\ pc' = "exit"
  /\ UNCHANGED <<argv, dev, boot_record, buffer, hdr, gptlocals,
                 trace, printed>>

Next ==
  \/ Usage
  \/ Begin
  \/ ReadBootSector
  \/ CheckSignature
  \/ Scheme
  \/ ReadGptHeader
  \/ ValidateHeader
  \/ EnumStep
  \/ PrintGpt
  \/ Exit

Spec == Init /\ [][Next]_vars

\* the runs of one device
SpecOne == InitOne /\ [][Next]_vars

-----------------------------------------------------------------------------
(* Properties *)

\* the positions of the trace that hold an event ev of device d
At(ev, d) == { j \in 1..Len(trace) : trace[j].ev = ev /\ trace[j].dev = d }

\* device d has been left: the loop went on to the next device or ended
Left(d) == d < dev

\* C1: for every boot sector, is_mbr returns 0 iff the little-endian 16-bit
\* value at bytes 510-511 is not 0xAA55; otherwise 2 if one of the four
\* descriptors at offset 446 has partition_type 0xEE, and 1 if none has.
C1_Classification ==
  \A j \in 1..Len(trace) :
    trace[j].ev = "is_mbr" =>
      LET b == ImageSector(argv[trace[j].dev], 0)
          sig == b[510 + 1] + 256 * b[511 + 1]
          ee == \E k \in 0..3 : b[446 + 16 * k + 4 + 1] = 238
      IN /\ (trace[j].res = 0) <=> (sig # 43605)
         /\ sig = 43605 => trace[j].res = (IF ee THEN 2 ELSE 1)

\* C1 witness: a sector with 0xEE in a boot_flag byte, 0x07 as its first
\* partition type and 0xEE as its last one was classified protective
C1_Witness ==
  \E j \in 1..Len(trace) :
    /\ trace[j].ev = "is_mbr" /\ trace[j].res = 2
    /\ ImageSector(argv[trace[j].dev], 0)[446 + 1] = 238
    /\ ImageSector(argv[trace[j].dev], 0)[446 + 4 + 1] = 7
    /\ ImageSector(argv[trace[j].dev], 0)[446 + 16 + 4 + 1] = 0
    /\ ImageSector(argv[trace[j].dev], 0)[446 + 48 + 4 + 1] = 238

\* C2: LBA 1 is read only after LBA 0 was read successfully and classified
\* protective; a traditional boot sector ends in the MBR listing and an
\* invalid one in failure, both without a read of LBA 1 or of an entry
\* sector; entry sectors are read only after the header passed validation.
C2_ReadOrder ==
  \A j \in 1..Len(trace) :
    LET e == trace[j]
        before(ev) == { k \in At(ev, e.dev) : k < j }
    IN /\ e.ev \in {"read_hdr", "read_entry"} =>
            /\ \E k \in before("read_boot") : trace[k].ok
            /\ \E k \in before("is_mbr") : trace[k].res = 2
       /\ e.ev = "read_entry" =>
            \E k \in before("is_valid") :
               /\ trace[k].ok
               /\ \E h \in At("read_hdr", e.dev) : h < k /\ trace[h].ok
       /\ e.ev = "is_mbr" /\ e.res = 1 =>
            /\ At("read_hdr", e.dev) = {} /\ At("read_entry", e.dev) = {}
            /\ At("print_gpt", e.dev) = {}
            /\ Left(e.dev) => At("print_mbr", e.dev) # {}
       /\ e.ev = "is_mbr" /\ e.res = 0 =>
            /\ At("read_hdr", e.dev) = {} /\ At("read_entry", e.dev) = {}
            /\ At("print_gpt", e.dev) = {} /\ At("print_mbr", e.dev) = {}
            /\ Left(e.dev)

\* C2 witness: a finished run that listed an MBR for one device and read
\* partition entries of the other
C2_Witness ==
  /\ pc = "exit"
  /\ \E j \in 1..Len(trace) : trace[j].ev = "print_mbr"
  /\ \E j \in 1..Len(trace) : trace[j].ev = "read_entry" /\ trace[j].ok

\* the sector device d holds at LBA 1
HeaderSectorOf(d) == ImageSector(argv[d], 1)

\* the table printed for device d, if one was
PrintedFor(d) == { k \in 1..Len(printed) : printed[k].dev = d }

C4_BadSignatureRejected ==
  \A j \in 1..Len(trace) :
    LET d == trace[j].dev IN
    /\ trace[j].ev = "read_hdr"
    /\ trace[j].ok
    /\ SubSeq(HeaderSectorOf(d), 1, 8) # <<69, 70, 73, 32, 80, 65, 82, 84>>
    => /\ At("read_entry", d) = {}
       /\ At("print_gpt", d) = {}
       /\ PrintedFor(d) = {}
       /\ \A k \in At("is_valid", d) : ~ trace[k].ok
       /\ \/ pc = "validate" /\ dev = d
          \/ Left(d) /\ At("is_valid", d) # {} /\ pc \in {"loop", "is_mbr",
               "scheme", "read_hdr", "validate", "enum", "print", "exit"}

\* C4 witness: a header whose signature differs in its last byte only, in a
\* sector that is otherwise a header the validation accepts, followed by
\* 0xFF bytes, was rejected and the run ended normally
C4_Witness ==
  /\ pc = "exit"
  /\ Len(argv) = 1
  /\ \E j \in At("read_hdr", 1) : trace[j].ok
  /\ SubSeq(HeaderSectorOf(1), 1, 8) = <<69, 70, 73, 32, 80, 65, 82, 85>>
  /\ is_valid_gpt_header(Splice(HeaderSectorOf(1), 0, EFI_PART))
  /\ HeaderSectorOf(1)[512] = 255
  /\ \E k \in At("is_valid", 1) : ~ trace[k].ok

\* C5 (as claimed): when the read of an entry sector fails, no entry sector is
\* read afterwards for that disk and no GPT table is produced for it.
C5_FailedReadNoTable ==
  \A j \in 1..Len(trace) :
    trace[j].ev = "read_entry" /\ ~ trace[j].ok =>
      /\ \A k \in At("read_entry", trace[j].dev) : k <= j
      /\ At("print_gpt", trace[j].dev) = {}
      /\ PrintedFor(trace[j].dev) = {}

\* the positions of the trace at which the analysis of a device starts
Boots == { j \in 1..Len(trace) : trace[j].ev = "read_boot" }

\* C6: a read failure at any stage ends the analysis of that device only:
\* the devices are analysed once each, in argument order, whatever the
\* outcome of the devices before.
C6_EachDeviceOnce ==
  /\ LET boots == Boots
     IN \A j \in boots : trace[j].dev = Cardinality({ k \in boots : k < j }) + 1
  /\ \A j \in 1..Len(trace) : trace[j].dev \in 1..Len(argv)
  /\ \A j \in 1..(Len(trace) - 1) : trace[j].dev <= trace[j + 1].dev
  /\ pc = "exit" => Cardinality(Boots) = Len(argv)
  /\ pc = "exit_failure" => argv = <<>>
  /\ /\ trace # <<>>
     /\ trace[Len(trace)].ev \in {"read_boot", "read_hdr", "read_entry"}
     /\ ~ trace[Len(trace)].ok
     /\ pc # "exit"
     => ENABLED Next

\* C6 witness: a finished run of two devices where the first one failed on
\* an entry sector and the second one was analysed to its table
C6_Witness ==
  /\ pc = "exit"
  /\ Len(argv) = 2
  /\ \E j \in At("read_entry", 1) : ~ trace[j].ok
  /\ At("print_gpt", 2) # {}

\* C7: for a validated header whose entry sectors are all readable, the
\* enumeration examines the slots 0..num_partition_entries-1 once each, in
\* increasing order, and ends; the non-empty records do not exceed that count.
C7_ExactlyNumEntries ==
  \A j \in 1..Len(trace) :
    LET d == trace[j].dev
        reads == At("read_entry", d)
        n == hdr_num_partition_entries(
               Bytes(HeaderSectorOf(d), 0, SizeOfStruct(gpt_header)))
    IN trace[j].ev = "print_gpt" /\ (\A k \in reads : trace[k].ok) =>
         /\ trace[j].res = n
         /\ Cardinality(reads) = n
         /\ \A k \in reads : k < j
         /\ \A k \in reads :
              trace[k].idx = Cardinality({ m \in reads : m < k })
         /\ Cardinality({ k \in reads : trace[k].res = 1 }) <= n
         /\ \A k \in PrintedFor(d) :
              /\ printed[k].n = n
              /\ Len(printed[k].parts) = n
              \* a printed table never changes: its records are counted
              \* in the state that follows the call
              /\ j = Len(trace) => Len(GptRecords(printed[k].parts)) <= n

\* C7 witness: a table of three entries, all read, one of them empty
C7_Witness ==
  \E j \in 1..Len(trace) :
    /\ trace[j].ev = "print_gpt"
    /\ trace[j].res = 3
    /\ \A k \in At("read_entry", trace[j].dev) : trace[k].ok
    /\ \E k \in At("read_entry", trace[j].dev) : trace[k].res = 0
    /\ \E k \in At("read_entry", trace[j].dev) : trace[k].res = 1

\* C8 (as claimed): the descriptor decoded for entry i is made of the bytes
\* at absolute offset partition_entry_lba*512 + i*partition_entry_size, that
\* is at the intra-sector offset of the entry and not at the sector's start.
C8_EntryOffset ==
  pc = "enum" /\ ei > 0 /\ desc # <<>> =>
    desc = ImageBytes(argv[dev],
                      partition_entries_lba * 512 + (ei - 1) * entry_size,
                      Len(desc))

\* C9 (as claimed): the header decoded from LBA 1 has header_size at byte
\* offset 12 (u32), partition_entry_lba at 72 (u64), num_partition_entries at
\* 80 (u32) and partition_entry_size at 84 (u32), little-endian.
C9_HeaderLayout ==
  /\ pc = "validate" =>
       ToLE(hdr_header_size(hdr), 4) = SubSeq(HeaderSectorOf(dev), 13, 16)
  /\ pc = "enum" =>
       /\ ToLE(partition_entries_lba, 8) = SubSeq(HeaderSectorOf(dev), 73, 80)
       /\ ToLE(num_entries, 4) = SubSeq(HeaderSectorOf(dev), 81, 84)
       /\ ToLE(entry_size, 4) = SubSeq(HeaderSectorOf(dev), 85, 88)

\* C10 (as claimed): the name of the record of a non-empty entry is the
\* decoding of the entry's own 72-byte partition_name field on disk.
C10_NameFromDisk ==
  pc = "loop" /\ printed # <<>> /\ printed[Len(printed)].dev = dev - 1 =>
    \A k \in At("read_entry", dev - 1) :
      trace[k].ok /\ trace[k].res = 1 =>
        PartitionRecord(printed[Len(printed)].parts[trace[k].idx + 1]).name
          = gpt_decode_partition_name(
              ImageBytes(argv[dev - 1],
                         partition_entries_lba * 512
                           + trace[k].idx * entry_size + 56,
                         72))

\* the entries of device d that the enumeration stored into partitions[]
Written(d) ==
  { trace[j].idx : j \in { m \in At("read_entry", d) :
                             trace[m].ok /\ trace[m].res = 1 } }

\* C11 (as claimed): the partitions handed to print_gpt_partition_table for
\* a device depend on that device's sectors only: every slot
\* 0..num_entries-1 of the array was stored during this device's enumeration
\* from a descriptor read from it, and a device given twice on the command
\* line has the same array handed to output both times.
C11_Independence ==
  /\ \A k \in 1..Len(printed) :
       \A i \in 0..(printed[k].n - 1) : i \in Written(printed[k].dev)
  /\ \A k, m \in 1..Len(printed) :
       argv[printed[k].dev] = argv[printed[m].dev] =>
         printed[k].parts = printed[m].parts

=============================================================================
